---- MODULE Spec2Model ----
(***************************************************************************)
(* Model of package httpext (kenkeiter/httpext): the ContentRange value    *)
(* of range_header.go, its mutators SetFirst / SetLast / Constrain /       *)
(* SetTotal, its formatter Format and its parser ParseRange (Spec); the    *)
(* middleware Set of middleware/middleware.go (SpecMW); the CORSPolicy of  *)
(* cors.go (SpecCORS); the Error of httperror/httperror.go (SpecErr).      *)
(*                                                                         *)
(* A Go string is a sequence of one-character strings, so that scanning,   *)
(* integer parsing and integer formatting are modelled by what they do.    *)
(***************************************************************************)
EXTENDS Integers, Sequences, FiniteSets, TLC

(***************************************************************************)
(* Bounds of the model.                                                    *)
(***************************************************************************)
\* SetFirst / SetLast / NewContentRange arguments range over -MaxVal..MaxVal
MaxVal == 2
\* Constrain / SetTotal sizes (collection sizes) range over 0..MaxSize, plus
\* one two-digit size
MaxSize == 3
BigSize == 12
\* ParseRange inputs are "u=" followed by any string over TailChars of
\* length 0..MaxTail, and those strings alone (inputs without '=')
MaxTail == 4

TailChars == {"u", "-", "0", "1"}
Vals == (0 - MaxVal)..MaxVal
Sizes == (0..MaxSize) \cup {BigSize}
UnitNames == {<<>>, <<"u">>}
Tails == UNION {[1..k -> TailChars] : k \in 0..MaxTail}
Inputs == Tails \cup {u \o <<"=">> \o t : u \in UnitNames, t \in Tails}

(***************************************************************************)
(* Error values (range_header.go:13-33) and the sentinel.                  *)
(***************************************************************************)
NoError == "nil"
ErrRangeIsSuffix == "ErrRangeIsSuffix"
ErrRangeInvalid == "ErrRangeInvalid"
ErrRangeUnsatisfiableZeroLength == "ErrRangeUnsatisfiableZeroLength"
ErrRangeOutsideConstraints == "ErrRangeOutsideConstraints"
\* the *strconv.NumError returned by strconv.ParseInt
ErrNumError == "strconv.NumError"
\* the error built by fmt.Errorf in Format
ErrFormatUnbound == "One or more unbound"
RangeUnconstrained == 0 - 1

(***************************************************************************)
(* The ContentRange struct; ZeroRange is &ContentRange{}.                  *)
(***************************************************************************)
ContentRange(units, first, last, fBound, lBound, total, tBound) ==
    [units |-> units, first |-> first, last |-> last,
     fBound |-> fBound, lBound |-> lBound, total |-> total, tBound |-> tBound]

ZeroRange == ContentRange(<<>>, 0, 0, FALSE, FALSE, 0, FALSE)

\* the result of a method returning error: the object afterwards and the error
Ret(c, e) == [c |-> c, err |-> e]

(***************************************************************************)
(* Mutators.                                                               *)
(***************************************************************************)
SetFirst(c, first) ==
    IF c.lBound /\ c.first >= c.last
    THEN Ret(c, ErrRangeInvalid)
    ELSE Ret([c EXCEPT !.first = first, !.fBound = TRUE], NoError)

SetLast(c, last) ==
    IF c.fBound /\ last < c.first
    THEN Ret(c, ErrRangeInvalid)
    ELSE Ret([c EXCEPT !.last = last, !.lBound = TRUE], NoError)

\* Constrain comparing first with size instead of size-1
ConstrainOffByOne(c, size) ==
    IF size = 0
    THEN IF ~c.fBound
         THEN Ret([c EXCEPT !.last = 0, !.lBound = TRUE], NoError)
         ELSE Ret(c, ErrRangeUnsatisfiableZeroLength)
    ELSE IF ~c.fBound
         THEN LET f == size + c.last
              IN Ret([c EXCEPT !.first = IF f < 0 THEN 0 ELSE f,
                               !.fBound = TRUE,
                               !.last = size - 1,
                               !.lBound = TRUE], NoError)
         ELSE IF c.first > size
              THEN Ret(c, ErrRangeOutsideConstraints)
              ELSE IF ~c.lBound
                   THEN Ret([c EXCEPT !.last = size - 1, !.lBound = TRUE], NoError)
                   ELSE Ret(c, NoError)

\* Constrain without the clamp of a suffix longer than the collection
ConstrainNoClamp(c, size) ==
    IF size = 0
    THEN IF ~c.fBound
         THEN Ret([c EXCEPT !.last = 0, !.lBound = TRUE], NoError)
         ELSE Ret(c, ErrRangeUnsatisfiableZeroLength)
    ELSE IF ~c.fBound
         THEN Ret([c EXCEPT !.first = size + c.last,
                            !.fBound = TRUE,
                            !.last = size - 1,
                            !.lBound = TRUE], NoError)
         ELSE IF c.first > size - 1
              THEN Ret(c, ErrRangeOutsideConstraints)
              ELSE IF ~c.lBound
                   THEN Ret([c EXCEPT !.last = size - 1, !.lBound = TRUE], NoError)
                   ELSE Ret(c, NoError)

\* Constrain binding an unbound last before it compares first with size-1
ConstrainEagerLast(c, size) ==
    IF size = 0
    THEN IF ~c.fBound
         THEN Ret([c EXCEPT !.last = 0, !.lBound = TRUE], NoError)
         ELSE Ret(c, ErrRangeUnsatisfiableZeroLength)
    ELSE IF ~c.fBound
         THEN LET f == size + c.last
              IN Ret([c EXCEPT !.first = IF f < 0 THEN 0 ELSE f,
                               !.fBound = TRUE,
                               !.last = size - 1,
                               !.lBound = TRUE], NoError)
         ELSE LET b == IF ~c.lBound
                       THEN [c EXCEPT !.last = size - 1, !.lBound = TRUE]
                       ELSE c
              IN IF c.first > size - 1
                 THEN Ret(b, ErrRangeOutsideConstraints)
                 ELSE Ret(b, NoError)

Constrain(c, size) ==
    IF size = 0
    THEN IF ~c.fBound
         THEN Ret([c EXCEPT !.last = 0, !.lBound = TRUE], NoError)
         ELSE Ret(c, ErrRangeUnsatisfiableZeroLength)
    ELSE IF ~c.fBound
         THEN LET f == size + c.last
              IN Ret([c EXCEPT !.first = IF f < 0 THEN 0 ELSE f,
                               !.fBound = TRUE,
                               !.last = size - 1,
                               !.lBound = TRUE], NoError)
         ELSE IF c.first > size - 1
              THEN Ret(c, ErrRangeOutsideConstraints)
              ELSE IF ~c.lBound
                   THEN Ret([c EXCEPT !.last = size - 1, !.lBound = TRUE], NoError)
                   ELSE Ret(c, NoError)

\* SetTotal recording the total before looking at Constrain's error
SetTotalEager(c, total) ==
    LET r == Constrain(c, total)
    IN Ret([r.c EXCEPT !.tBound = TRUE, !.total = total], r.err)

SetTotal(c, total) ==
    LET r == Constrain(c, total)
    IN IF r.err # NoError
       THEN r
       ELSE Ret([r.c EXCEPT !.tBound = TRUE, !.total = total], NoError)

(***************************************************************************)
(* Accessors.                                                              *)
(***************************************************************************)
IsFixed(c) == c.fBound /\ c.lBound

\* Offset guarding the field with the sentinel, as First() does
OffsetGuarded(c) == IF ~c.fBound THEN RangeUnconstrained ELSE c.first

Offset(c) == c.first

\* Limit counting both end points of a fixed range
LimitInclusive(c) ==
    IF IsFixed(c) THEN c.last - c.first + 1
    ELSE IF c.lBound /\ c.last < 0 THEN 0 - c.last
    ELSE RangeUnconstrained

Limit(c) ==
    IF IsFixed(c) THEN c.last - c.first
    ELSE IF c.lBound /\ c.last < 0 THEN 0 - c.last
    ELSE RangeUnconstrained

(***************************************************************************)
(* Decimal formatting: strconv.FormatInt(v, 10) and fmt's %d.              *)
(***************************************************************************)
DigitChar(d) ==
    CASE d = 0 -> "0" [] d = 1 -> "1" [] d = 2 -> "2" [] d = 3 -> "3"
      [] d = 4 -> "4" [] d = 5 -> "5" [] d = 6 -> "6" [] d = 7 -> "7"
      [] d = 8 -> "8" [] d = 9 -> "9"

RECURSIVE FormatUintReversed(_)
\* FormatUint emitting the digits least significant first
FormatUintReversed(n) ==
    IF n < 10 THEN <<DigitChar(n)>>
    ELSE <<DigitChar(n % 10)>> \o FormatUintReversed(n \div 10)

RECURSIVE FormatUint(_)
FormatUint(n) ==
    IF n < 10 THEN <<DigitChar(n)>>
    ELSE Append(FormatUint(n \div 10), DigitChar(n % 10))

FormatInt(v) == IF v < 0 THEN <<"-">> \o FormatUint(0 - v) ELSE FormatUint(v)

\* Format returns (string, error)
FmtRet(s, e) == [out |-> s, err |-> e]

\* Format refusing only the suffix half of the partly bound states
FormatOpenEnded(c) ==
    LET max == IF c.tBound THEN FormatInt(c.total) ELSE <<"*">>
    IN IF ~c.fBound /\ ~c.lBound
       THEN FmtRet(c.units \o <<" ", "*", "/">> \o max, NoError)
       ELSE IF ~c.fBound /\ c.lBound
            THEN FmtRet(<<>>, ErrFormatUnbound)
            ELSE FmtRet(c.units \o <<" ">> \o FormatInt(c.first) \o <<"-">>
                          \o FormatInt(c.last) \o <<"/">> \o max, NoError)

Format(c) ==
    LET max == IF c.tBound THEN FormatInt(c.total) ELSE <<"*">>
    IN IF ~c.fBound /\ ~c.lBound
       THEN FmtRet(c.units \o <<" ", "*", "/">> \o max, NoError)
       ELSE IF (~c.fBound /\ c.lBound) \/ (c.fBound /\ ~c.lBound)
            THEN FmtRet(<<>>, ErrFormatUnbound)
            ELSE FmtRet(c.units \o <<" ">> \o FormatInt(c.first) \o <<"-">>
                          \o FormatInt(c.last) \o <<"/">> \o max, NoError)

(***************************************************************************)
(* Parsing.                                                                *)
(***************************************************************************)
IsDigit(ch) == ch \in {"0", "1", "2", "3", "4", "5", "6", "7", "8", "9"}

DigitVal(ch) ==
    CASE ch = "0" -> 0 [] ch = "1" -> 1 [] ch = "2" -> 2 [] ch = "3" -> 3
      [] ch = "4" -> 4 [] ch = "5" -> 5 [] ch = "6" -> 6 [] ch = "7" -> 7
      [] ch = "8" -> 8 [] ch = "9" -> 9

Rest(s, from) == SubSeq(s, from, Len(s))

RECURSIVE ParseUint(_, _)
\* value of a run of decimal digits, most significant first
ParseUint(s, acc) ==
    IF s = <<>> THEN acc ELSE ParseUint(Tail(s), acc * 10 + DigitVal(Head(s)))

RECURSIVE StripZeros(_)
\* a run of digits without its leading zeros
StripZeros(s) ==
    IF s # <<>> /\ Head(s) = "0" THEN StripZeros(Tail(s)) ELSE s

\* the digits of 1<<63 - 1 and of 1<<63, the largest magnitudes of a
\* positive and of a negative int64
MaxInt64Digits ==
    <<"9", "2", "2", "3", "3", "7", "2", "0", "3", "6",
      "8", "5", "4", "7", "7", "5", "8", "0", "7">>
MinInt64Digits ==
    <<"9", "2", "2", "3", "3", "7", "2", "0", "3", "6",
      "8", "5", "4", "7", "7", "5", "8", "0", "8">>

\* the int64 limits themselves exceed the integers of the model checker and
\* are kept as names; ParseInt returns them only next to a range error
MaxInt64 == "1<<63 - 1"
MinInt64 == "-1<<63"

\* a > b for two runs of digits without leading zeros
DigitsGreater(a, b) ==
    \/ Len(a) > Len(b)
    \/ /\ Len(a) = Len(b)
       /\ \E i \in 1..Len(a) :
              /\ DigitVal(a[i]) > DigitVal(b[i])
              /\ \A j \in 1..(i - 1) : a[j] = b[j]

\* strconv.ParseInt(s, 10, 64): optional sign, then one or more digits;
\* anything else is a syntax error with value 0; a value that does not fit
\* 64 bits is a range error with the nearest limit as value
ParseInt(s) ==
    LET signed == s # <<>> /\ Head(s) \in {"+", "-"}
        neg == signed /\ Head(s) = "-"
        body == IF signed THEN Tail(s) ELSE s
    IN IF body = <<>> \/ \E i \in 1..Len(body) : ~IsDigit(body[i])
       THEN [v |-> 0, err |-> ErrNumError]
       ELSE IF ~neg /\ DigitsGreater(StripZeros(body), MaxInt64Digits)
            THEN [v |-> MaxInt64, err |-> ErrNumError]
       ELSE IF neg /\ DigitsGreater(StripZeros(body), MinInt64Digits)
            THEN [v |-> MinInt64, err |-> ErrNumError]
       ELSE [v |-> IF neg THEN 0 - ParseUint(body, 0) ELSE ParseUint(body, 0),
             err |-> NoError]

\* inputs whose value is one past either int64 limit:
\* "u=9223372036854775808-" and "u=-9223372036854775809"
OverflowInputs ==
    {<<"u", "=">> \o MinInt64Digits \o <<"-">>,
     <<"u", "=", "-">> \o SubSeq(MinInt64Digits, 1, 18) \o <<"9">>}

RECURSIVE ScanUnit(_, _)
\* the loop of expectUnitSpecifier, i is the 1-based position
ScanUnit(s, i) ==
    IF i > Len(s) THEN [units |-> <<>>, rest |-> <<>>]
    ELSE IF s[i] = "=" THEN [units |-> SubSeq(s, 1, i - 1), rest |-> Rest(s, i + 1)]
    ELSE ScanUnit(s, i + 1)

\* expectUnitSpecifier handing back the whole input when there is no '='
expectUnitSpecifierLenient(s) ==
    IF \A i \in 1..Len(s) : s[i] # "="
    THEN [units |-> <<>>, rest |-> s]
    ELSE ScanUnit(s, 1)

expectUnitSpecifier(s) == ScanUnit(s, 1)

RECURSIVE ScanValue(_, _)
\* the loop of expectRangeValue, i is the 1-based position
ScanValue(s, i) ==
    IF i > Len(s) THEN [value |-> 0, rest |-> <<>>, err |-> ErrRangeInvalid]
    ELSE IF i > 1 /\ ~IsDigit(s[i])
         THEN LET p == ParseInt(SubSeq(s, 1, i - 1))
              IN [value |-> p.v, rest |-> Rest(s, i), err |-> p.err]
    ELSE IF i = Len(s)
         THEN LET p == ParseInt(SubSeq(s, 1, i))
              IN [value |-> p.v, rest |-> <<>>, err |-> p.err]
    ELSE ScanValue(s, i + 1)

expectRangeValue(s) == ScanValue(s, 1)

expectSeparator(s, sep) ==
    IF s[1] = sep THEN [rest |-> Tail(s), found |-> TRUE]
    ELSE [rest |-> s, found |-> FALSE]

\* ParseRange returns (*ContentRange, error); nil is TRUE for a nil pointer
ParseRet(c, isnil, e) == [rng |-> c, nil |-> isnil, err |-> e]
ParseFail(e) == ParseRet(ZeroRange, TRUE, e)

\* the part of ParseRange after the first value has been bound by SetFirst
ParseLast(rng, s) ==
    LET sp == expectSeparator(s, "-")
    IN IF sp.found /\ Len(sp.rest) > 0
       THEN LET lv == expectRangeValue(sp.rest)
                sl == SetLast(rng, lv.value)
            IN IF lv.err # NoError THEN ParseFail(lv.err)
               ELSE IF sl.err # NoError THEN ParseFail(sl.err)
               ELSE IF Len(lv.rest) > 0 THEN ParseFail(ErrRangeInvalid)
               ELSE ParseRet(sl.c, FALSE, NoError)
       ELSE IF Len(sp.rest) > 0 THEN ParseFail(ErrRangeInvalid)
       ELSE ParseRet(rng, FALSE, NoError)

\* ParseRange without the test of the first value's sign
ParseRangeNoSignTest(r) ==
    LET us == expectUnitSpecifier(r)
        rng == [ZeroRange EXCEPT !.units = us.units]
        fv == expectRangeValue(us.rest)
    IN IF fv.err # NoError THEN ParseFail(fv.err)
       ELSE LET sf == SetFirst(rng, fv.value)
            IN IF sf.err # NoError THEN ParseFail(sf.err)
               ELSE IF Len(fv.rest) = 0 THEN ParseRet(sf.c, FALSE, NoError)
               ELSE ParseLast(sf.c, fv.rest)

ParseRange(r) ==
    LET us == expectUnitSpecifier(r)
        rng == [ZeroRange EXCEPT !.units = us.units]
        fv == expectRangeValue(us.rest)
    IN IF fv.err # NoError THEN ParseFail(fv.err)
       ELSE IF fv.value < 0
            THEN LET sl == SetLast(rng, fv.value)
                 IN ParseRet(sl.c, FALSE, sl.err)
       ELSE LET sf == SetFirst(rng, fv.value)
            IN IF sf.err # NoError THEN ParseFail(sf.err)
               ELSE IF Len(fv.rest) = 0 THEN ParseRet(sf.c, FALSE, NoError)
               ELSE ParseLast(sf.c, fv.rest)

NewContentRange(units, first, last) ==
    LET c == [ZeroRange EXCEPT !.units = units]
        sf == SetFirst(c, first)
        sl == SetLast(sf.c, last)
    IN IF sf.err # NoError THEN ParseFail(sf.err)
       ELSE IF sl.err # NoError THEN ParseFail(sl.err)
       ELSE ParseRet(sl.c, FALSE, NoError)

(***************************************************************************)
(* The state machine: one ContentRange and the calls made on it.           *)
(*   c      the object's fields                                            *)
(*   live   FALSE when the constructor returned a nil pointer              *)
(*   op     the last call and its arguments                                *)
(*   pre    the object's fields before the last call                       *)
(*   prevOp the name of the call before the last one                       *)
(*   err    the error returned by the last call                            *)
(*   out    the string returned by the last call, if it was Format         *)
(*   val    the int returned by the last call, if it was Offset or Limit   *)
(***************************************************************************)
VARIABLES c, live, op, pre, prevOp, err, out, val

(***************************************************************************)
(* The state of the middleware Set and of one request served through it:   *)
(*   mw     Set.m, the registered middleware in registration order         *)
(*   mwPc   "register", then "serving" once Apply has run, then "done"     *)
(*   mwRun  the handler that is still to run for the request               *)
(*   mwLog  the handlers that have run for the request, in order           *)
(***************************************************************************)
VARIABLES mw, mwPc, mwRun, mwLog

(***************************************************************************)
(* The state of the CORS policy and of one response written from it:       *)
(*   policy     the CORSPolicy struct                                      *)
(*   reqOrigin  the Origin header of the request of the last WriteHeaders  *)
(*   resp       the headers of the response of the last WriteHeaders       *)
(*   written    TRUE when WriteHeaders was the last call                   *)
(***************************************************************************)
VARIABLES policy, reqOrigin, resp, written

(***************************************************************************)
(* The httperror values that exist, as a heap of *httpError:               *)
(*   errs     the httpError structs, errs[i] being the one at address i    *)
(*   errMade  for each address, how the struct was made: the address of    *)
(*            the receiver of WithDetail (0 for New) and the detail given  *)
(*   errOp    the last call: its name, receiver, argument and result       *)
(*   errPre   the heap before the last call                                *)
(***************************************************************************)
VARIABLES errs, errMade, errOp, errPre

rangeVars == <<c, live, op, pre, prevOp, err, out, val>>
mwVars == <<mw, mwPc, mwRun, mwLog>>
corsVars == <<policy, reqOrigin, resp, written>>
errorVars == <<errs, errMade, errOp, errPre>>
vars == <<rangeVars, mwVars, corsVars, errorVars>>

\* &CORSPolicy{}
ZeroPolicy ==
    [allowAllOrigins |-> FALSE, origins |-> <<>>,
     allowAllMethods |-> FALSE, methods |-> <<>>,
     allowAllHeaders |-> FALSE, allowHeaders |-> <<>>,
     exposeHeaders |-> <<>>, MaxAge |-> 0, AllowCredentials |-> FALSE]

Call(name, a, b, s) == [name |-> name, a |-> a, b |-> b, s |-> s]

\* c := &ContentRange{}; ms := &Set{}; p := &CORSPolicy{}; no httperror yet
Init ==
    /\ c = ZeroRange
    /\ live = TRUE
    /\ op = Call("new", 0, 0, <<>>)
    /\ pre = ZeroRange
    /\ prevOp = "none"
    /\ err = NoError
    /\ out = <<>>
    /\ val = 0
    /\ mw = <<>>
    /\ mwPc = "register"
    /\ mwRun = <<>>
    /\ mwLog = <<>>
    /\ policy = ZeroPolicy
    /\ reqOrigin = ""
    /\ resp = {}
    /\ written = FALSE
    /\ errs = <<>>
    /\ errMade = <<>>
    /\ errOp = [name |-> "none", recv |-> 0, arg |-> "nil", other |-> 0, res |-> 0, eq |-> FALSE]
    /\ errPre = <<>>

\* a constructor replaces the zero value before any method has been called
Construct(call, r) ==
    /\ op.name = "new"
    /\ c' = r.rng
    /\ live' = ~r.nil
    /\ op' = call
    /\ pre' = c
    /\ prevOp' = op.name
    /\ err' = r.err
    /\ out' = <<>>
    /\ val' = 0
    /\ UNCHANGED <<mwVars, corsVars, errorVars>>

DoParseRange ==
    \E r \in Inputs \cup OverflowInputs :
        Construct(Call("ParseRange", 0, 0, r), ParseRange(r))

DoNewContentRange ==
    \E u \in UnitNames, f \in Vals, l \in Vals :
        Construct(Call("NewContentRange", f, l, u), NewContentRange(u, f, l))

\* a method returning error, called on the live object
Mutate(call, r) ==
    /\ live
    /\ c' = r.c
    /\ op' = call
    /\ pre' = c
    /\ prevOp' = op.name
    /\ err' = r.err
    /\ out' = <<>>
    /\ val' = 0
    /\ UNCHANGED <<live, mwVars, corsVars, errorVars>>

DoSetFirst == \E v \in Vals : Mutate(Call("SetFirst", v, 0, <<>>), SetFirst(c, v))

DoSetLast == \E v \in Vals : Mutate(Call("SetLast", v, 0, <<>>), SetLast(c, v))

DoConstrain == \E n \in Sizes : Mutate(Call("Constrain", n, 0, <<>>), Constrain(c, n))

DoSetTotal == \E n \in Sizes : Mutate(Call("SetTotal", n, 0, <<>>), SetTotal(c, n))

DoFormat ==
    /\ live
    /\ op' = Call("Format", 0, 0, <<>>)
    /\ pre' = c
    /\ prevOp' = op.name
    /\ err' = Format(c).err
    /\ out' = Format(c).out
    /\ val' = 0
    /\ UNCHANGED <<c, live, mwVars, corsVars, errorVars>>

\* an accessor returning int, called on the live object
Read(call, v) ==
    /\ live
    /\ op' = call
    /\ pre' = c
    /\ prevOp' = op.name
    /\ err' = NoError
    /\ out' = <<>>
    /\ val' = v
    /\ UNCHANGED <<c, live, mwVars, corsVars, errorVars>>

DoOffset == Read(Call("Offset", 0, 0, <<>>), Offset(c))

DoLimit == Read(Call("Limit", 0, 0, <<>>), Limit(c))

Next ==
    \/ DoParseRange
    \/ DoNewContentRange
    \/ DoSetFirst
    \/ DoSetLast
    \/ DoConstrain
    \/ DoSetTotal
    \/ DoFormat
    \/ DoOffset
    \/ DoLimit

Spec == Init /\ [][Next]_vars

(***************************************************************************)
(* middleware/middleware.go.                                               *)
(*                                                                         *)
(* An http.Handler is the sequence of handler bodies it runs when it       *)
(* serves a request.  A middleware Handler maps the next http.Handler to   *)
(* a new one; it is an entry [kind, id, callsNext]:                        *)
(*   kind "Use"        a caller's middleware that runs its body id and     *)
(*                     then calls the next handler, or does not            *)
(*   kind "UseHandler" the closure f of UseHandler around handler id       *)
(***************************************************************************)
\* a Set holds at most MaxMW middleware
MaxMW == 3

HandlerIds == {"h0", "h1"}
\* the primary handler passed to Apply
Primary == "h"

\* the http.Handler that runs the one body id
PlainHandler(id) == <<id>>

\* m.m[i](n): the handler a registered middleware returns for next handler n
Wrap(e, n) ==
    IF e.kind = "UseHandler" THEN PlainHandler(e.id) \o n
    ELSE IF e.callsNext THEN <<e.id>> \o n
    ELSE <<e.id>>

Empty(m) == Len(m) = 0

\* Set.Use appends the caller's middleware
Use(m, id, callsNext) ==
    Append(m, [kind |-> "Use", id |-> id, callsNext |-> callsNext])

\* Set.UseHandler appends the closure f, which runs h and then n
UseHandler(m, id) ==
    Append(m, [kind |-> "UseHandler", id |-> id, callsNext |-> TRUE])

RECURSIVE ApplyForwardLoop(_, _, _)
ApplyForwardLoop(m, i, n) ==
    IF i > Len(m) THEN n ELSE ApplyForwardLoop(m, i + 1, Wrap(m[i], n))

\* Apply wrapping from the first registered middleware to the last
ApplyForward(m, h) ==
    IF ~Empty(m) THEN ApplyForwardLoop(m, 1, h) ELSE h

RECURSIVE ApplyLoop(_, _, _)
\* the loop of Apply, i is the 1-based index
ApplyLoop(m, i, n) ==
    IF i < 1 THEN n ELSE ApplyLoop(m, i - 1, Wrap(m[i], n))

Apply(m, h) ==
    IF ~Empty(m) THEN ApplyLoop(m, Len(m), h) ELSE h

DoUse ==
    \E id \in HandlerIds, callsNext \in BOOLEAN :
        /\ mwPc = "register"
        /\ Len(mw) < MaxMW
        /\ mw' = Use(mw, id, callsNext)
        /\ UNCHANGED <<mwPc, mwRun, mwLog, rangeVars, corsVars, errorVars>>

DoUseHandler ==
    \E id \in HandlerIds :
        /\ mwPc = "register"
        /\ Len(mw) < MaxMW
        /\ mw' = UseHandler(mw, id)
        /\ UNCHANGED <<mwPc, mwRun, mwLog, rangeVars, corsVars, errorVars>>

\* hnd := ms.Apply(h); hnd.ServeHTTP(w, r) is about to run
DoApply ==
    /\ mwPc = "register"
    /\ mwRun' = Apply(mw, PlainHandler(Primary))
    /\ mwPc' = "serving"
    /\ UNCHANGED <<mw, mwLog, rangeVars, corsVars, errorVars>>

\* the next handler body of the chain runs
ServeHTTP ==
    /\ mwPc = "serving"
    /\ mwRun # <<>>
    /\ mwLog' = Append(mwLog, Head(mwRun))
    /\ mwRun' = Tail(mwRun)
    /\ mwPc' = IF Tail(mwRun) = <<>> THEN "done" ELSE "serving"
    /\ UNCHANGED <<mw, rangeVars, corsVars, errorVars>>

NextMW ==
    \/ DoUse
    \/ DoUseHandler
    \/ DoApply
    \/ ServeHTTP

SpecMW == Init /\ [][NextMW]_vars

(***************************************************************************)
(* cors.go.                                                                *)
(*                                                                         *)
(* Header names and values are strings; a response's http.Header is the    *)
(* set of <<name, value>> pairs that have been Set on it.  A time.Duration *)
(* is counted in milliseconds.                                             *)
(***************************************************************************)
\* the policy lists origins up to MaxOrigins entries, the other lists up to
\* MaxList entries
MaxOrigins == 2
MaxList == 2

HeaderNameCORSAllowOrigin == "Access-Control-Allow-Origin"
HeaderNameCORSExposeHeaders == "Access-Control-Expose-Headers"
HeaderNameCORSMaxAge == "Access-Control-Max-Age"
HeaderNameCORSAllowCreds == "Access-Control-Allow-Credentials"
HeaderNameCORSAllowMethods == "Access-Control-Allow-Methods"
HeaderNameCORSAllowHeaders == "Access-Control-Allow-Headers"
HeaderNameCORSVary == "Vary"

\* the origins of the tests; a request without Origin header reads ""
OriginNames == {"http://example.com", "http://google.com"}
ReqOrigins == OriginNames \cup {"http://kenkeiter.com", ""}
OriginArgs == UNION {[1..k -> OriginNames] : k \in 1..2}
MethodArgs == {<<"GET">>, <<"GET", "POST">>}
HeaderArgs == {<<"X-Test-Header", "X-Another-Test-Header">>}
MaxAges == {0, 1500, 0 - 1500}

\* http.Header.Set and http.Header.Get
HeaderSet(h, k, v) == {p \in h : p[1] # k} \cup {<<k, v>>}
HeaderGet(h, k) == IF \E p \in h : p[1] = k THEN (CHOOSE p \in h : p[1] = k)[2] ELSE ""

RECURSIVE Join(_, _)
\* strings.Join
Join(l, sep) ==
    IF l = <<>> THEN ""
    ELSE IF Len(l) = 1 THEN l[1]
    ELSE l[1] \o sep \o Join(Tail(l), sep)

RECURSIVE StringOf(_)
\* the Go string spelled by a sequence of characters
StringOf(chars) == IF chars = <<>> THEN "" ELSE Head(chars) \o StringOf(Tail(chars))

\* int(d.Seconds()): the conversion to int truncates toward zero
Seconds(d) == IF d >= 0 THEN d \div 1000 ELSE 0 - ((0 - d) \div 1000)

AllowOrigins(p, o) == [p EXCEPT !.allowAllOrigins = FALSE, !.origins = @ \o o]
AllowAllOrigins(p) == [p EXCEPT !.allowAllOrigins = TRUE, !.origins = <<>>]
AllowMethods(p, m) == [p EXCEPT !.allowAllMethods = FALSE, !.methods = @ \o m]
AllowAllMethods(p) == [p EXCEPT !.allowAllMethods = TRUE, !.methods = <<>>]
AllowHeaders(p, h) == [p EXCEPT !.allowAllHeaders = FALSE, !.allowHeaders = @ \o h]
AllowAllHeaders(p) == [p EXCEPT !.allowAllHeaders = TRUE, !.allowHeaders = <<>>]
ExposeHeaders(p, h) == [p EXCEPT !.exposeHeaders = @ \o h]

OriginAllowed(p, o) ==
    IF p.allowAllOrigins THEN TRUE
    ELSE \E i \in 1..Len(p.origins) : o = p.origins[i]

\* the Access-Control-Allow-Origin and Vary part of WriteHeaders
WriteOrigin(p, h, origin) ==
    IF p.allowAllOrigins
    THEN HeaderSet(h, HeaderNameCORSAllowOrigin, "*")
    ELSE LET h1 == IF Len(p.origins) > 1
                   THEN HeaderSet(h, HeaderNameCORSVary, "Origin")
                   ELSE h
         IN IF OriginAllowed(p, origin)
            THEN HeaderSet(h1, HeaderNameCORSAllowOrigin, origin)
            ELSE HeaderSet(h1, HeaderNameCORSAllowOrigin, "null")

\* the remaining headers of WriteHeaders, written onto h
WriteRest(p, h) ==
    LET h2 == IF Len(p.exposeHeaders) > 0
              THEN HeaderSet(h, HeaderNameCORSExposeHeaders, Join(p.exposeHeaders, ", "))
              ELSE h
        h3 == HeaderSet(h2, HeaderNameCORSMaxAge, StringOf(FormatInt(Seconds(p.MaxAge))))
        h4 == IF p.AllowCredentials
              THEN HeaderSet(h3, HeaderNameCORSAllowCreds, "true")
              ELSE HeaderSet(h3, HeaderNameCORSAllowCreds, "false")
        h5 == IF p.allowAllMethods
              THEN HeaderSet(h4, HeaderNameCORSAllowMethods, "*")
              ELSE IF Len(p.methods) > 0
                   THEN HeaderSet(h4, HeaderNameCORSAllowMethods, Join(p.methods, ", "))
                   ELSE h4
    IN IF p.allowAllHeaders
       THEN HeaderSet(h5, HeaderNameCORSAllowHeaders, "*")
       ELSE IF Len(p.allowHeaders) > 0
            THEN HeaderSet(h5, HeaderNameCORSAllowHeaders, Join(p.allowHeaders, ", "))
            ELSE h5

\* WriteHeaders setting Vary as soon as one origin is configured
WriteHeadersVaryAlways(p, h, origin) ==
    IF p.allowAllOrigins
    THEN WriteRest(p, HeaderSet(h, HeaderNameCORSAllowOrigin, "*"))
    ELSE LET h1 == IF Len(p.origins) > 0
                   THEN HeaderSet(h, HeaderNameCORSVary, "Origin")
                   ELSE h
         IN IF OriginAllowed(p, origin)
            THEN WriteRest(p, HeaderSet(h1, HeaderNameCORSAllowOrigin, origin))
            ELSE WriteRest(p, HeaderSet(h1, HeaderNameCORSAllowOrigin, "null"))

\* WriteHeaders(w, req), h being w.Header() and origin req.Header.Get("Origin")
WriteHeaders(p, h, origin) == WriteRest(p, WriteOrigin(p, h, origin))

\* a change of the policy; the next response has not been written yet
Configure(p) ==
    /\ policy' = p
    /\ resp' = {}
    /\ reqOrigin' = ""
    /\ written' = FALSE
    /\ UNCHANGED <<rangeVars, mwVars, errorVars>>

DoAllowOrigins ==
    \E o \in OriginArgs :
        /\ Len(policy.origins) + Len(o) <= MaxOrigins
        /\ Configure(AllowOrigins(policy, o))

DoAllowAllOrigins == Configure(AllowAllOrigins(policy))

DoAllowMethods ==
    \E m \in MethodArgs :
        /\ Len(policy.methods) + Len(m) <= MaxList
        /\ Configure(AllowMethods(policy, m))

DoAllowAllMethods == Configure(AllowAllMethods(policy))

DoAllowHeaders ==
    \E h \in HeaderArgs :
        /\ Len(policy.allowHeaders) + Len(h) <= MaxList
        /\ Configure(AllowHeaders(policy, h))

DoAllowAllHeaders == Configure(AllowAllHeaders(policy))

DoExposeHeaders ==
    \E h \in HeaderArgs :
        /\ Len(policy.exposeHeaders) + Len(h) <= MaxList
        /\ Configure(ExposeHeaders(policy, h))

\* c.MaxAge = d
DoSetMaxAge == \E d \in MaxAges : Configure([policy EXCEPT !.MaxAge = d])

\* c.AllowCredentials = b
DoSetAllowCredentials ==
    \E b \in BOOLEAN : Configure([policy EXCEPT !.AllowCredentials = b])

\* c.WriteHeaders(w, req) on a new response recorder
DoWriteHeaders ==
    \E origin \in ReqOrigins :
        /\ resp' = WriteHeaders(policy, {}, origin)
        /\ reqOrigin' = origin
        /\ written' = TRUE
        /\ UNCHANGED <<policy, rangeVars, mwVars, errorVars>>

NextCORS ==
    \/ DoAllowOrigins
    \/ DoAllowAllOrigins
    \/ DoAllowMethods
    \/ DoAllowAllMethods
    \/ DoAllowHeaders
    \/ DoAllowAllHeaders
    \/ DoExposeHeaders
    \/ DoSetMaxAge
    \/ DoSetAllowCredentials
    \/ DoWriteHeaders

SpecCORS == Init /\ [][NextCORS]_vars

(***************************************************************************)
(* httperror/httperror.go.                                                 *)
(*                                                                         *)
(* An Error is a *httpError, the address of a struct on the heap; the heap *)
(* is the sequence of the structs allocated so far.  A function that       *)
(* allocates returns the heap afterwards and the address it returns.       *)
(* A detail is an interface{} value: nil, or one of two strings.           *)
(***************************************************************************)
\* at most MaxErrs httpError structs are allocated
MaxErrs == 3

\* http.StatusNotFound, http.StatusInternalServerError
Statuses == {404, 500}
ErrorIds == {"err_not_found", "err_missing_sanity"}
Messages == {"Missing sanity.", "Missing server."}
NilDetail == "nil"
Details == {NilDetail, "Likely time of loss", "Unlikely"}

Alloc(heap, e) == [heap |-> Append(heap, e), res |-> Len(heap) + 1]

New(heap, status, id, message) ==
    Alloc(heap, [status |-> status, id |-> id, message |-> message, detail |-> NilDetail])

ID(e) == e.id
Status(e) == e.status
Message(e) == e.message
Detail(e) == e.detail

\* e.Equal(x)
Equal(e, x) ==
    /\ ID(e) = ID(x)
    /\ Status(e) = Status(x)
    /\ Message(e) = Message(x)

\* e.clone(), e being the struct at address i
clone(heap, i) ==
    Alloc(heap, [id |-> heap[i].id, status |-> heap[i].status,
                 message |-> heap[i].message, detail |-> heap[i].detail])

\* WithDetail storing the detail in the receiver and returning the receiver
WithDetailInPlace(heap, i, detail) ==
    [heap |-> [heap EXCEPT ![i].detail = detail], res |-> i]

\* e.WithDetail(detail), e being the struct at address i
WithDetail(heap, i, detail) ==
    LET derivedErr == clone(heap, i)
    IN [heap |-> [derivedErr.heap EXCEPT ![derivedErr.res].detail = detail],
        res |-> derivedErr.res]

ErrCall(name, recv, arg, other, res, eq) ==
    [name |-> name, recv |-> recv, arg |-> arg, other |-> other, res |-> res, eq |-> eq]

\* a call that returns an Error: the heap afterwards, and how the structs
\* allocated by the call were made
Allocate(call, r) ==
    /\ errs' = r.heap
    /\ errMade' = IF Len(r.heap) > Len(errs)
                  THEN Append(errMade, [recv |-> call.recv, detail |-> call.arg])
                  ELSE errMade
    /\ errOp' = call
    /\ errPre' = errs
    /\ UNCHANGED <<rangeVars, mwVars, corsVars>>

DoNew ==
    \E status \in Statuses, id \in ErrorIds, message \in Messages :
        /\ Len(errs) < MaxErrs
        /\ LET r == New(errs, status, id, message)
           IN Allocate(ErrCall("New", 0, NilDetail, 0, r.res, FALSE), r)

DoWithDetail ==
    \E i \in 1..Len(errs), detail \in Details :
        /\ Len(errs) < MaxErrs
        /\ LET r == WithDetail(errs, i, detail)
           IN Allocate(ErrCall("WithDetail", i, detail, 0, r.res, FALSE), r)

\* errs[i].Equal(errs[j])
DoEqual ==
    \E i \in 1..Len(errs), j \in 1..Len(errs) :
        /\ errOp' = ErrCall("Equal", i, NilDetail, j, 0, Equal(errs[i], errs[j]))
        /\ errPre' = errs
        /\ UNCHANGED <<errs, errMade, rangeVars, mwVars, corsVars>>

NextErr ==
    \/ DoNew
    \/ DoWithDetail
    \/ DoEqual

SpecErr == Init /\ [][NextErr]_vars

(***************************************************************************)
(* Vocabulary of the properties.                                           *)
(***************************************************************************)
\* the three shapes of spec section 3
SuffixShape(x) == ~x.fBound /\ x.lBound /\ x.last < 0
OpenShape(x) == x.fBound /\ ~x.lBound
FixedShape(x) == x.fBound /\ x.lBound

\* a fixed range [a,b] with 0 <= a <= b < n
FixedIn(x, n) ==
    /\ FixedShape(x)
    /\ 0 <= x.first /\ x.first <= x.last /\ x.last < n

Max(a, b) == IF a >= b THEN a ELSE b

\* s is the canonical decimal numeral of the integer n
IsNumeralOf(s, n) ==
    LET body == IF n < 0 THEN Tail(s) ELSE s
        abs == IF n < 0 THEN 0 - n ELSE n
    IN /\ s # <<>>
       /\ n < 0 => Head(s) = "-"
       /\ body # <<>>
       /\ \A i \in 1..Len(body) : IsDigit(body[i])
       /\ Len(body) > 1 => body[1] # "0"
       /\ ParseUint(body, 0) = abs

\* s reads "<max>": the numeral of x.total when the total is bound, else "*"
IsMaxOf(s, x) == IF x.tBound THEN IsNumeralOf(s, x.total) ELSE s = <<"*">>

\* s reads "<units> <first>-<last>/<max>" for the fields of x
ReadsAsRange(s, x) ==
    LET u == Len(x.units)
    IN \E i, j \in 1..Len(s) :
        /\ u + 1 < i /\ i < j
        /\ SubSeq(s, 1, u) = x.units
        /\ s[u + 1] = " "
        /\ IsNumeralOf(SubSeq(s, u + 2, i - 1), x.first)
        /\ s[i] = "-"
        /\ IsNumeralOf(SubSeq(s, i + 1, j - 1), x.last)
        /\ s[j] = "/"
        /\ IsMaxOf(Rest(s, j + 1), x)

\* s reads "<units> */<max>" for the fields of x
ReadsAsStar(s, x) ==
    LET u == Len(x.units)
    IN /\ Len(s) > u + 3
       /\ SubSeq(s, 1, u) = x.units
       /\ SubSeq(s, u + 1, u + 3) = <<" ", "*", "/">>
       /\ IsMaxOf(Rest(s, u + 4), x)

\* the header strings of range_header_test.go
HdrSuffix == <<"r", "e", "s", "o", "u", "r", "c", "e", "s", "=", "-", "1", "0", "0">>
HdrOpen == <<"r", "e", "s", "o", "u", "r", "c", "e", "s", "=", "1", "0", "0", "-">>
HdrFixed == <<"r", "e", "s", "o", "u", "r", "c", "e", "s", "=", "1", "0", "0", "-", "1", "9", "9">>

\* ParseRange(r), then SetTotal(n), then Format()
FormatWithTotal(r, n) == Format(SetTotal(ParseRange(r).rng, n).c)

(***************************************************************************)
(* C1. If both first and last are bound then first <= last, in every       *)
(* state reachable by SetFirst, SetLast, Constrain and SetTotal from a new *)
(* ContentRange or a ParseRange / NewContentRange result.                  *)
(***************************************************************************)
C1_FirstLeLast == live => (c.fBound /\ c.lBound => c.first <= c.last)

(***************************************************************************)
(* C2. For a > b on a fresh ContentRange, SetFirst(a) then SetLast(b)      *)
(* makes SetLast return ErrRangeInvalid, and SetLast(b) then SetFirst(a)   *)
(* makes SetFirst return ErrRangeInvalid.                                  *)
(***************************************************************************)
FreshWithFirst(a) == [ZeroRange EXCEPT !.first = a, !.fBound = TRUE]
FreshWithLast(b) == [ZeroRange EXCEPT !.last = b, !.lBound = TRUE]

C2_RejectedInEitherOrder ==
    /\ (op.name = "SetLast" /\ prevOp = "SetFirst"
          /\ pre = FreshWithFirst(pre.first) /\ pre.first > op.a)
       => err = ErrRangeInvalid
    /\ (op.name = "SetFirst" /\ prevOp = "SetLast"
          /\ pre = FreshWithLast(pre.last) /\ op.a > pre.last)
       => err = ErrRangeInvalid

(***************************************************************************)
(* C3. For a ContentRange returned by ParseRange and n > 0, if SetTotal(n) *)
(* or Constrain(n) returns no error then both bounds are bound and         *)
(* 0 <= first <= last <= n-1.                                              *)
(***************************************************************************)
C3_ConstrainedWithinCollection ==
    (op.name \in {"SetTotal", "Constrain"} /\ prevOp = "ParseRange"
       /\ op.a > 0 /\ err = NoError)
    => FixedIn(c, op.a)

(***************************************************************************)
(* C4. Once totalBound is true, both first and last are bound, for every   *)
(* size passed to SetTotal including 0.                                    *)
(***************************************************************************)
C4_TotalBoundImpliesBothBound == (live /\ c.tBound) => (c.fBound /\ c.lBound)

(***************************************************************************)
(* C5. Constrain(0) on a suffix range returns no error and afterwards      *)
(* Limit() = 0; Constrain(0) on a range whose first is bound returns       *)
(* ErrRangeUnsatisfiableZeroLength.  The suffix range is taken in its      *)
(* narrowest sense: first unbound, last bound and negative.                *)
(***************************************************************************)
C5_ConstrainZero ==
    (op.name = "Constrain" /\ op.a = 0)
    => /\ SuffixShape(pre) => (err = NoError /\ Limit(c) = 0)
       /\ pre.fBound => err = ErrRangeUnsatisfiableZeroLength

(***************************************************************************)
(* C6. As claimed: for every size n, Constrain(n) on a range whose first   *)
(* is bound with first > n-1 returns ErrRangeOutsideConstraints.           *)
(***************************************************************************)
C6_OutsideForEverySize ==
    (op.name = "Constrain" /\ pre.fBound /\ pre.first > op.a - 1)
    => err = ErrRangeOutsideConstraints

(***************************************************************************)
(* C6, amended. For every size n other than 0, Constrain(n) on a range     *)
(* whose first is bound with first > n-1 returns                           *)
(* ErrRangeOutsideConstraints; for n = 0 it returns                        *)
(* ErrRangeUnsatisfiableZeroLength.                                        *)
(***************************************************************************)
C6_OutsideForNonZeroSize ==
    (op.name = "Constrain" /\ pre.fBound /\ pre.first > op.a - 1)
    => err = IF op.a = 0 THEN ErrRangeUnsatisfiableZeroLength
             ELSE ErrRangeOutsideConstraints

\* Constrain(n), n # 0, refused a range starting exactly at index n
C6_Witness ==
    /\ op.name = "Constrain" /\ op.a > 0
    /\ pre.fBound /\ pre.first = op.a
    /\ err = ErrRangeOutsideConstraints

(***************************************************************************)
(* C7. Constrain(n) with n > 0 resolves a suffix range with last = -k to   *)
(* first = max(0, n-k), last = n-1, and an open-ended range with           *)
(* first = a <= n-1 to first = a, last = n-1; both bounds are bound        *)
(* afterwards and no error is returned.  "resources=-100" with total 200   *)
(* formats as "resources 100-199/200", "resources=100-" with total 300 as  *)
(* "resources 100-299/300".                                                *)
(***************************************************************************)
C7_ResolvesToReferenceInterval ==
    /\ (op.name \in {"Constrain", "SetTotal"} /\ op.a > 0)
       => /\ SuffixShape(pre)
             => /\ err = NoError
                /\ FixedShape(c)
                /\ c.first = Max(0, op.a + pre.last)
                /\ c.last = op.a - 1
          /\ (OpenShape(pre) /\ pre.first <= op.a - 1)
             => /\ err = NoError
                /\ FixedShape(c)
                /\ c.first = pre.first
                /\ c.last = op.a - 1
    /\ FormatWithTotal(HdrSuffix, 200) = FmtRet(<<"r", "e", "s", "o", "u", "r", "c", "e", "s", " ", "1", "0", "0", "-", "1", "9", "9", "/", "2", "0", "0">>, NoError)
    /\ FormatWithTotal(HdrOpen, 300) = FmtRet(<<"r", "e", "s", "o", "u", "r", "c", "e", "s", " ", "1", "0", "0", "-", "2", "9", "9", "/", "3", "0", "0">>, NoError)

\* a suffix longer than the collection was clamped to start at index 0
C7_Witness ==
    /\ op.name = "Constrain" /\ op.a > 0
    /\ SuffixShape(pre) /\ op.a + pre.last < 0
    /\ err = NoError /\ c.first = 0 /\ c.last = op.a - 1

(***************************************************************************)
(* C8. Constrain is idempotent: if Constrain(n) returns no error, calling  *)
(* Constrain(n) again returns no error and changes no field.               *)
(***************************************************************************)
C8_ConstrainIdempotent ==
    [][(op.name = "Constrain" /\ err = NoError
          /\ op'.name = "Constrain" /\ op'.a = op.a)
       => (err' = NoError /\ c' = c)]_vars

(***************************************************************************)
(* C9. For n > 0 and a fixed range [a,b] with 0 <= a <= b < n: Format()    *)
(* before any SetTotal yields "<units> a-b/*", Constrain(n) changes no     *)
(* field, and Format() after SetTotal(n) yields "<units> a-b/n".           *)
(***************************************************************************)
C9_FixedRangeFormats ==
    /\ (op.name = "Format" /\ FixedShape(c) /\ 0 <= c.first
          /\ c.first <= c.last /\ ~c.tBound)
       => (err = NoError /\ ReadsAsRange(out, c) /\ out[Len(out)] = "*")
    /\ (op.name = "Constrain" /\ op.a > 0 /\ FixedIn(pre, op.a))
       => (err = NoError /\ c = pre)
    /\ (op.name = "SetTotal" /\ op.a > 0 /\ FixedIn(pre, op.a))
       => (err = NoError /\ c = [pre EXCEPT !.tBound = TRUE, !.total = op.a])
    /\ (op.name = "Format" /\ c.tBound /\ c.total > 0 /\ FixedIn(c, c.total))
       => (err = NoError /\ ReadsAsRange(out, c) /\ out[Len(out)] # "*")
    /\ Format(ParseRange(HdrFixed).rng) = FmtRet(<<"r", "e", "s", "o", "u", "r", "c", "e", "s", " ", "1", "0", "0", "-", "1", "9", "9", "/", "*">>, NoError)
    /\ FormatWithTotal(HdrFixed, 200) = FmtRet(<<"r", "e", "s", "o", "u", "r", "c", "e", "s", " ", "1", "0", "0", "-", "1", "9", "9", "/", "2", "0", "0">>, NoError)

\* a fixed range with a two-digit last index, short of the end of the
\* collection, was formatted against a two-digit total
C9_Witness ==
    /\ op.name = "Format" /\ prevOp = "SetTotal"
    /\ c.tBound /\ c.total >= 10 /\ FixedIn(c, c.total)
    /\ c.last >= 10 /\ c.last < c.total - 1
    /\ err = NoError /\ Len(out) > 0

(***************************************************************************)
(* C10. Format() returns an error exactly when exactly one of first/last   *)
(* is bound; with both unbound it returns "<units> */<max>", with both     *)
(* bound "<units> <first>-<last>/<max>", <max> being the decimal total     *)
(* when the total is bound and "*" otherwise.                              *)
(***************************************************************************)
C10_FormatErrorAndShape ==
    op.name = "Format"
    => /\ (err # NoError) <=> (c.fBound # c.lBound)
       /\ (~c.fBound /\ ~c.lBound) => ReadsAsStar(out, c)
       /\ (c.fBound /\ c.lBound) => ReadsAsRange(out, c)

\* Format refused a suffix range that has not been constrained
C10_Witness ==
    /\ op.name = "Format" /\ SuffixShape(c)
    /\ err = ErrFormatUnbound /\ out = <<>>

(***************************************************************************)
(* The grammar of spec section 4.5, read off the input alone:              *)
(*   <units>=-N      <units>=N      <units>=N-      <units>=N-M            *)
(* where a value is a run of digits with an optional sign.                 *)
(***************************************************************************)
IsDigits(t) == t # <<>> /\ \A i \in 1..Len(t) : IsDigit(t[i])

\* a decimal value, with an optional sign
IsValue(t) == IsDigits(t) \/ (Len(t) > 1 /\ t[1] \in {"+", "-"} /\ IsDigits(Tail(t)))

\* t is exactly a suffix expression: "-N"
IsSuffixExpr(t) == Len(t) > 1 /\ t[1] = "-" /\ IsDigits(Tail(t))

\* t is exactly an open-ended expression: "N" or "N-"
IsOpenExpr(t) ==
    \/ IsValue(t)
    \/ Len(t) > 1 /\ t[Len(t)] = "-" /\ IsValue(SubSeq(t, 1, Len(t) - 1))

\* t is exactly a fixed expression: "N-M"
IsFixedExpr(t) ==
    \E i \in 2..(Len(t) - 1) :
        /\ IsValue(SubSeq(t, 1, i - 1))
        /\ t[i] = "-"
        /\ IsValue(Rest(t, i + 1))

IsRangeExpr(t) == IsSuffixExpr(t) \/ IsOpenExpr(t) \/ IsFixedExpr(t)

HasEquals(r) == \E i \in 1..Len(r) : r[i] = "="

\* the input after its first '='
AfterEquals(r) == Rest(r, 1 + CHOOSE i \in 1..Len(r) : r[i] = "=" /\ \A j \in 1..(i - 1) : r[j] # "=")

(***************************************************************************)
(* C11. ParseRange returns a range without error only if it has consumed   *)
(* the whole input: an input with characters left over after the           *)
(* recognised range expression is rejected, on the suffix, open-ended and  *)
(* fixed paths alike.                                                      *)
(***************************************************************************)
C11_WholeInputConsumed ==
    (op.name = "ParseRange" /\ err = NoError /\ HasEquals(op.s))
    => /\ SuffixShape(c) => IsSuffixExpr(AfterEquals(op.s))
       /\ OpenShape(c) => IsOpenExpr(AfterEquals(op.s))
       /\ FixedShape(c) => IsFixedExpr(AfterEquals(op.s))

(***************************************************************************)
(* C12. ParseRange on an input that contains no '=' returns                *)
(* ErrRangeInvalid and no range.                                           *)
(***************************************************************************)
C12_NoEqualsIsInvalid ==
    (op.name = "ParseRange" /\ ~HasEquals(op.s))
    => (err = ErrRangeInvalid /\ ~live)

\* an input that would be a fixed range but for the missing "<units>="
C12_Witness ==
    /\ op.name = "ParseRange" /\ ~HasEquals(op.s)
    /\ IsRangeExpr(op.s) /\ Len(op.s) >= 3
    /\ err = ErrRangeInvalid /\ ~live

(***************************************************************************)
(* C13. Every error returned by ParseRange is ErrRangeInvalid, and the     *)
(* returned range is then nil.                                             *)
(***************************************************************************)
C13_EveryParseErrorIsInvalid ==
    (op.name = "ParseRange" /\ err # NoError)
    => (err = ErrRangeInvalid /\ ~live)

(***************************************************************************)
(* C14. As claimed: Offset() returns first when first is bound and         *)
(* RangeUnconstrained (-1) when first is unbound.                          *)
(***************************************************************************)
C14_OffsetSentinel ==
    op.name = "Offset"
    => val = IF pre.fBound THEN pre.first ELSE RangeUnconstrained

(***************************************************************************)
(* C14, amended. Offset() returns first when first is bound and 0 when     *)
(* first is unbound, in every state.                                       *)
(***************************************************************************)
C14_OffsetZeroWhenUnbound ==
    op.name = "Offset"
    => val = IF pre.fBound THEN pre.first ELSE 0

\* Offset() was read on a parsed suffix range
C14_Witness ==
    /\ op.name = "Offset" /\ prevOp = "ParseRange"
    /\ SuffixShape(pre) /\ val = 0

(***************************************************************************)
(* C15. Limit() returns last-first when both bounds are bound, -last when  *)
(* only last is bound and last is negative, and RangeUnconstrained (-1)    *)
(* in every other state.                                                   *)
(***************************************************************************)
C15_LimitCases ==
    op.name = "Limit"
    => val = CASE pre.fBound /\ pre.lBound -> pre.last - pre.first
               [] ~pre.fBound /\ pre.lBound /\ pre.last < 0 -> 0 - pre.last
               [] OTHER -> RangeUnconstrained

\* Limit() was read on a fixed range of more than one element
C15_Witness ==
    /\ op.name = "Limit"
    /\ FixedShape(pre) /\ pre.first < pre.last
    /\ val = pre.last - pre.first

(***************************************************************************)
(* C16. For a fixed range parsed from "<units>=a-b" with 0 <= a <= b,      *)
(* Offset() = a and Limit() = b-a+1, the number of elements of the range.  *)
(***************************************************************************)
C16_LimitCountsElements ==
    (prevOp = "ParseRange" /\ FixedShape(pre)
       /\ 0 <= pre.first /\ pre.first <= pre.last)
    => /\ op.name = "Offset" => val = pre.first
       /\ op.name = "Limit" => val = pre.last - pre.first + 1

(***************************************************************************)
(* C17. first is never negative once bound: firstBound implies             *)
(* first >= 0 in every reachable state.                                    *)
(***************************************************************************)
C17_FirstNeverNegative == (live /\ c.fBound) => c.first >= 0

(***************************************************************************)
(* C18. SetTotal(t) fails exactly when Constrain(t) would fail on the same *)
(* state and returns that same error; on failure total and totalBound keep *)
(* their previous values, on success totalBound is true and total = t.     *)
(***************************************************************************)
C18_SetTotalFollowsConstrain ==
    op.name = "SetTotal"
    => /\ err = Constrain(pre, op.a).err
       /\ err # NoError => (c.total = pre.total /\ c.tBound = pre.tBound)
       /\ err = NoError => (c.tBound /\ c.total = op.a)

\* a failed SetTotal left an earlier, different total in place
C18_Witness ==
    /\ op.name = "SetTotal" /\ err # NoError
    /\ pre.tBound /\ pre.total # op.a
    /\ c.tBound /\ c.total = pre.total

(***************************************************************************)
(* C19. After any sequence of Use and UseHandler registrations followed by *)
(* Apply(h), serving one request runs the registered middleware in         *)
(* registration order, the first registered first, and h last, each        *)
(* exactly once, provided every Use-registered middleware calls its next   *)
(* handler; Apply on an empty Set returns a handler that just runs h.      *)
(***************************************************************************)
RegisteredIds == [i \in 1..Len(mw) |-> mw[i].id]

C19_MiddlewareRunsFifo ==
    /\ (mwPc = "done" /\ \A i \in 1..Len(mw) : mw[i].callsNext)
       => mwLog = RegisteredIds \o <<Primary>>
    /\ (mwPc = "done" /\ Empty(mw)) => mwLog = <<Primary>>

\* a request ran through a UseHandler handler and then a different Use
\* middleware before reaching h
C19_Witness ==
    /\ mwPc = "done" /\ Len(mw) >= 2
    /\ mw[1].kind = "UseHandler" /\ mw[2].kind = "Use" /\ mw[2].callsNext
    /\ mw[1].id # mw[2].id
    /\ \A i \in 1..Len(mw) : mw[i].callsNext
    /\ mwLog = RegisteredIds \o <<Primary>>

(***************************************************************************)
(* C20. WriteHeaders sets Access-Control-Allow-Origin to "*" when all      *)
(* origins are allowed; otherwise to the request's Origin value when that  *)
(* exact value is in the configured allow-list and to "null" when it is    *)
(* not; it sets Vary: Origin exactly when not all origins are allowed and  *)
(* more than one origin is configured.                                     *)
(***************************************************************************)
Configured == {policy.origins[i] : i \in 1..Len(policy.origins)}

C20_AllowOriginAndVary ==
    written
    => /\ <<HeaderNameCORSAllowOrigin,
            IF policy.allowAllOrigins THEN "*"
            ELSE IF reqOrigin \in Configured THEN reqOrigin
            ELSE "null">> \in resp
       /\ Cardinality({p \in resp : p[1] = HeaderNameCORSAllowOrigin}) = 1
       /\ (<<HeaderNameCORSVary, "Origin">> \in resp)
          <=> (~policy.allowAllOrigins /\ Len(policy.origins) > 1)
       /\ HeaderGet(resp, HeaderNameCORSVary) \in {"", "Origin"}

\* with two origins configured, a request from neither was answered "null"
\* and Vary: Origin
C20_Witness ==
    /\ written /\ ~policy.allowAllOrigins
    /\ Cardinality(Configured) = 2 /\ reqOrigin \notin Configured /\ reqOrigin # ""
    /\ HeaderGet(resp, HeaderNameCORSAllowOrigin) = "null"
    /\ HeaderGet(resp, HeaderNameCORSVary) = "Origin"

(***************************************************************************)
(* C21: WithDetail(d) returns a new Error whose Detail() is d and whose    *)
(* ID, Status and Message are the receiver's, so that Equal holds between  *)
(* the receiver and the derivative in both directions; no Error that       *)
(* existed before the call is changed, and along any chain of WithDetail   *)
(* calls every Error keeps the detail it was made with and stays Equal to  *)
(* the Error it was derived from.                                          *)
(***************************************************************************)
C21_WithDetailDerives ==
    /\ errOp.name = "WithDetail" =>
           /\ errOp.res \notin 1..Len(errPre)
           /\ errOp.res \in 1..Len(errs)
           /\ Detail(errs[errOp.res]) = errOp.arg
           /\ ID(errs[errOp.res]) = ID(errPre[errOp.recv])
           /\ Status(errs[errOp.res]) = Status(errPre[errOp.recv])
           /\ Message(errs[errOp.res]) = Message(errPre[errOp.recv])
           /\ Equal(errs[errOp.recv], errs[errOp.res])
           /\ Equal(errs[errOp.res], errs[errOp.recv])
           /\ \A i \in 1..Len(errPre) : errs[i] = errPre[i]
    /\ Len(errMade) = Len(errs)
    /\ \A i \in 1..Len(errs) :
           /\ Detail(errs[i]) = errMade[i].detail
           /\ errMade[i].recv # 0 =>
                  /\ Equal(errs[errMade[i].recv], errs[i])
                  /\ Equal(errs[i], errs[errMade[i].recv])

\* a derivative of a derivative has just been made, the three details differ
C21_Witness ==
    /\ errOp.name = "WithDetail"
    /\ errMade[errOp.recv].recv # 0
    /\ Detail(errs[errOp.recv]) # NilDetail
    /\ Detail(errs[errOp.res]) # Detail(errs[errOp.recv])
    /\ Detail(errs[errMade[errOp.recv].recv]) = NilDetail
    /\ errOp.res # errOp.recv

(***************************************************************************)
(* C22: a ContentRange returned without error by ParseRange has exactly    *)
(* one of three shapes: suffix (first unbound, last bound, last < 0),      *)
(* open-ended (first bound, first >= 0, last unbound) or fixed (both       *)
(* bound, 0 <= first <= last); it never has both bounds unbound and its    *)
(* total is never bound.                                                   *)
(***************************************************************************)
ParsedSuffix(x) == ~x.fBound /\ x.lBound /\ x.last < 0
ParsedOpen(x) == x.fBound /\ x.first >= 0 /\ ~x.lBound
ParsedFixed(x) == x.fBound /\ x.lBound /\ 0 <= x.first /\ x.first <= x.last

C22_ParsedShapes ==
    (op.name = "ParseRange" /\ err = NoError) =>
        /\ live
        /\ Cardinality({k \in {"suffix", "open", "fixed"} :
                           \/ k = "suffix" /\ ParsedSuffix(c)
                           \/ k = "open" /\ ParsedOpen(c)
                           \/ k = "fixed" /\ ParsedFixed(c)}) = 1
        /\ c.fBound \/ c.lBound
        /\ ~c.tBound

\* ParseRange has returned a fixed range of more than one element
C22_Witness ==
    /\ op.name = "ParseRange"
    /\ err = NoError
    /\ ParsedFixed(c)
    /\ 0 < c.first
    /\ c.first < c.last

(***************************************************************************)
(* C23: for every v, on a fresh ContentRange SetFirst(v) followed by       *)
(* SetLast(v) succeeds, whereas SetLast(v) followed by SetFirst(v) makes   *)
(* SetFirst return ErrRangeInvalid.                                        *)
(***************************************************************************)
C23_SingleElementOrder ==
    /\ (op.name = "SetLast" /\ prevOp = "SetFirst"
          /\ pre = FreshWithFirst(pre.first) /\ op.a = pre.first)
       => (err = NoError /\ c = [pre EXCEPT !.last = op.a, !.lBound = TRUE])
    /\ (op.name = "SetFirst" /\ prevOp = "SetLast"
          /\ pre = FreshWithLast(pre.last) /\ op.a = pre.last)
       => err = ErrRangeInvalid

(***************************************************************************)
(* C24: a call of SetFirst, SetLast, Constrain or SetTotal that returns an *)
(* error leaves every field of the ContentRange unchanged (units, first,   *)
(* last, both bound flags, total, totalBound), and Format changes no field *)
(* whether it succeeds or fails.                                           *)
(***************************************************************************)
C24_FailedCallChangesNothing ==
    /\ (op.name \in {"SetFirst", "SetLast", "Constrain", "SetTotal"} /\ err # NoError)
       => (/\ c.units = pre.units
           /\ c.first = pre.first
           /\ c.last = pre.last
           /\ c.fBound = pre.fBound
           /\ c.lBound = pre.lBound
           /\ c.total = pre.total
           /\ c.tBound = pre.tBound)
    /\ op.name = "Format" => c = pre

\* SetTotal has failed on an open-ended range whose first is outside the
\* collection
C24_Witness ==
    /\ op.name = "SetTotal"
    /\ op.a > 0
    /\ err = ErrRangeOutsideConstraints
    /\ OpenShape(pre)
    /\ pre.first >= op.a
    /\ c = pre

====
